---- MODULE Spec2Model ----
(***************************************************************************)
(* A model of src/app.py: the /restore endpoint (api_restore_image) and    *)
(* the two-stage restoration pipeline (generate_restoration) with its      *)
(* SQLite results table and the companion files of save_results_file.      *)
(*                                                                         *)
(* Several requests run concurrently.  A request takes one step per        *)
(* blocking operation of the code: the remote invocation, the stage-one    *)
(* POST, the local image preparation, the stage-two POST, the database     *)
(* transaction, and each of the three file writes.  The replies of the     *)
(* provider and the outcomes of the storage operations are chosen by the   *)
(* environment.  The locals of generate_restoration are dropped when it    *)
(* returns; posts, inserts and log record what the request did.            *)
(***************************************************************************)
EXTENDS Integers, Sequences, FiniteSets, TLC

\* Number of requests in flight in one run of the model.
NumRequests == 2

Requests == 1..NumRequests

\* The values of uuid.uuid4().hex.  Two calls never return the same value, so
\* the value drawn by request r is named r.  NoId is "no id generated".
Ids == Requests
NoId == 0

VARIABLES
    OPENAI_API_KEY,         \* module constant, fixed for a deployment
    pc,                     \* position of each request
    image_data,             \* generate_restoration's argument / local
    options,                \* generate_restoration's argument
    restoration_type,       \* generate_restoration's local, set from options
    result_id,              \* id generated at the start of generate_restoration
    building_description,   \* stage-one output
    restored_image_b64,     \* stage-two output
    result,                 \* value returned by generate_restoration
    response,               \* HTML fragment returned by api_restore_image
    posts,                  \* outbound POSTs issued by the request, with replies
    inserts,                \* number of INSERT statements executed by the request
    writes,                 \* storage operations of the request, with outcomes
    log,                    \* messages printed by the request
    results,                \* rows of the results table
    files                   \* files under RESULTS_FOLDER

vars == <<OPENAI_API_KEY, pc, image_data, options, restoration_type, result_id,
          building_description, restored_image_b64, result, response,
          posts, inserts, writes, log, results, files>>

-----------------------------------------------------------------------------
(* Values *)

None == [none |-> TRUE]

OPENAI_CHAT_COMPLETIONS_URL == "https://api.openai.com/v1/chat/completions"
OPENAI_IMAGE_API_URL == "https://api.openai.com/v1/images/edits"

HOME_INSTRUCTIONS == "Style it as a beautiful residential home"
COMMERCIAL_INSTRUCTIONS == "Style it as an attractive commercial building"

\* Deployed values of the credential: empty, or a key.
ApiKeys == {"", "sk-key"}

\* image_data is a string; it is modelled as a sequence of tokens, "," being
\* the comma of a data URL.  <<>> is the empty string.
ImagePayloads ==
    { <<>>,
      <<"/9j/IMG">>,
      <<"data:image/jpeg;base64", ",", "/9j/IMG">>,
      <<"not-an-image">> }

\* Values of the form field restoration_type.
FormTypes == {"home", "commercial", "other"}

\* dict.get(key, default)
Get(d, key, default) == IF key \in DOMAIN d THEN d[key] ELSE default

\* The forms of a POST to /restore: mappings holding the fields that were
\* sent, either of which may be missing.
Forms ==
    {[image_data |-> img, restoration_type |-> t] : img \in ImagePayloads, t \in FormTypes}
    \cup {[image_data |-> img] : img \in ImagePayloads}
    \cup {[restoration_type |-> t] : t \in FormTypes}
    \cup {[x \in {} |-> x]}

-----------------------------------------------------------------------------
(* Pure parts of generate_restoration *)

\* RestorationType if it were decided by the key commercial_restoration.
RestorationTypeFromCommercial(opts) ==
    IF Get(opts, "commercial_restoration", FALSE)
    THEN "Commercial Restoration" ELSE "Home Restoration"

\* restoration_type = "Home Restoration" if options.get("home_restoration", True)
\*                    else "Commercial Restoration"
RestorationType(opts) ==
    IF Get(opts, "home_restoration", TRUE)
    THEN "Home Restoration" ELSE "Commercial Restoration"

RestorationTypeInstructions(rtype) ==
    IF rtype = "Home Restoration" THEN HOME_INSTRUCTIONS ELSE COMMERCIAL_INSTRUCTIONS

\* prompt = RESTORATION_PROMPT.format(restoration_type_instructions=...)
Prompt(rtype) ==
    <<"Create a photorealistic restoration of this derelict building",
      RestorationTypeInstructions(rtype)>>

\* The f-string of enhanced_prompt: its fixed text and the three spliced values.
EnhancedPrompt(description, rtype) ==
    <<"Edit this image to show this derelict building fully restored.",
      description, rtype, RestorationTypeInstructions(rtype)>>

RECURSIVE IndexOf(_, _, _)
IndexOf(s, tok, i) ==
    IF i > Len(s) THEN 0
    ELSE IF s[i] = tok THEN i ELSE IndexOf(s, tok, i + 1)

\* if "," in image_data: image_data = image_data.split(",", 1)[1]
StripDataUrl(s) ==
    IF IndexOf(s, ",", 1) > 0
    THEN SubSeq(s, IndexOf(s, ",", 1) + 1, Len(s))
    ELSE s

\* base64.b64decode(image_data); Image.open(...); thumbnail; save as PNG.
\* Succeeds exactly on a base64-encoded image.
ImageOpens(s) == s = <<"/9j/IMG">>

\* base64.b64decode of a payload, as written to an image file.
B64Decode(s) == [bytes |-> s]

OriginalPath(id) == <<id, "_original.jpg">>
RestoredPath(id) == <<id, "_restored.jpg">>
JsonPath(id) == <<id, ".json">>

-----------------------------------------------------------------------------
(* The environment: provider replies and storage outcomes *)

\* What requests.post to the chat-completions endpoint can come back with, as
\* the code tells the cases apart: an exception of the transport, a status
\* raise_for_status rejects, a body without choices[0].message.content, an
\* empty content, a description.
VisionReplies == {"transport_error", "http_error", "bad_body", "empty_description", "ok"}

\* The same for the image-edits endpoint: an exception of the transport, a
\* status other than 200, a 200 body without data[0].b64_json, a 200 body
\* with an image, a 200 body whose b64_json is not valid base64.
EditReplies == {"transport_error", "http_error", "no_b64_json", "ok", "undecodable_b64"}

\* The provider never accepts a request that carries an empty bearer token.
ProviderReplies(key, replies) ==
    IF key = "" THEN replies \cap {"transport_error", "http_error"} ELSE replies

\* Where the database block can stop: in setup_database, in the INSERT, in
\* commit, in close, or nowhere.
DbOutcomes == {"setup_error", "insert_error", "commit_error", "close_error", "ok"}

\* Where a `with open(...) as f: f.write(...)` block can stop.
FileOutcomes == {"open_error", "write_error", "ok"}

Partial == [partial |-> TRUE]

-----------------------------------------------------------------------------
(* Decisions of generate_restoration *)

VisionDescription(reply) == IF reply = "ok" THEN "A derelict two-storey house" ELSE ""

\* VisionRaises without the check `if not building_description`.
VisionRaisesNoEmptyCheck(reply) ==
    reply \in {"transport_error", "http_error", "bad_body"}

\* Stage one raises: requests.post, raise_for_status, the indexing of the
\* body, or the check `if not building_description`.
VisionRaises(reply) ==
    \/ reply \in {"transport_error", "http_error", "bad_body"}
    \/ VisionDescription(reply) = ""

VisionMessage(reply) ==
    CASE reply = "transport_error"   -> "ConnectionError"
      [] reply = "http_error"        -> "HTTPError"
      [] reply = "bad_body"          -> "KeyError: 'choices'"
      [] OTHER -> "Failed to get building description from the vision model"

\* EditRaises without the check of status_code.
EditRaisesNoStatusCheck(reply) == reply \in {"transport_error", "no_b64_json"}

\* EditRaises with result["data"][0].get("b64_json") in place of the indexing.
EditRaisesNoShapeCheck(reply) == reply \in {"transport_error", "http_error"}

\* Stage two raises inside the inner try: requests.post, the status check,
\* or result["data"][0]["b64_json"].
EditRaises(reply) == reply \in {"transport_error", "http_error", "no_b64_json"}

EditMessage(reply) ==
    CASE reply = "transport_error" -> "GPT Image editing failed: ConnectionError"
      [] reply = "http_error"      -> "GPT Image editing failed: GPT Image API error: HTTP"
      [] OTHER                     -> "GPT Image editing failed: 'b64_json'"

\* restored_image_b64 = result["data"][0]["b64_json"]
RestoredImage(reply) ==
    IF reply = "ok" THEN <<"RESTORED">> ELSE <<"%%%">>

\* base64.b64decode(restored_image) succeeds
Decodes(b64) == b64 # <<"%%%">>

\* EditFallback if an error status led to a second attempt.
EditFallbackOnHttpError(reply) == reply = "http_error"

\* `except Exception as edit_error: raise ValueError(... No fallback ...)`:
\* a failed image-edit call is not followed by another outbound call.
EditFallback(reply) == FALSE

\* RowCommitted if conn.commit() were missing: close discards the INSERT.
RowCommittedNoCommit(outcome) == FALSE

\* DbRaises if the except clause of the database block only printed.
DbRaisesNever(outcome) == FALSE

\* The database block: which outcomes executed the INSERT, which left the
\* row committed, which raised (`except Exception as e: ... raise e`).
InsertExecuted(outcome) == outcome # "setup_error"
RowCommitted(outcome) == outcome \in {"close_error", "ok"}
DbRaises(outcome) == outcome # "ok"

DbMessage(outcome) ==
    CASE outcome = "setup_error"  -> "sqlite3.OperationalError: unable to open database file"
      [] outcome = "insert_error" -> "sqlite3.Error: INSERT failed"
      [] outcome = "commit_error" -> "sqlite3.OperationalError: commit failed"
      [] OTHER                    -> "sqlite3.Error: close failed"

\* SetupTable if setup_database dropped the table before creating it.
SetupTableDropped(table) == {}

\* setup_database: CREATE TABLE IF NOT EXISTS keeps the rows of the table.
SetupTable(table) == table

\* ResultRow if the INSERT named the status column and set it itself.
ResultRowPending(id, rtype, prompt) ==
    [ id |-> id,
      restoration_type |-> rtype,
      prompt |-> prompt,
      original_image_path |-> OriginalPath(id),
      restored_image_path |-> RestoredPath(id),
      status |-> "pending",
      feedback |-> None ]

\* ResultRow if the INSERT drew a second uuid4 instead of using result_id.
ResultRowSecondUuid(id, rtype, prompt) ==
    [ id |-> id + NumRequests,
      restoration_type |-> rtype,
      prompt |-> prompt,
      original_image_path |-> OriginalPath(id),
      restored_image_path |-> RestoredPath(id),
      status |-> "generated",
      feedback |-> None ]

\* The row of INSERT INTO results (...), with the defaults of the table.
ResultRow(id, rtype, prompt) ==
    [ id |-> id,
      restoration_type |-> rtype,
      prompt |-> prompt,
      original_image_path |-> OriginalPath(id),
      restored_image_path |-> RestoredPath(id),
      status |-> "generated",
      feedback |-> None ]

\* `id TEXT PRIMARY KEY`: an INSERT of an id the table holds fails.
PrimaryKeyFree(table, id) == \A row \in table : row.id # id

\* SaveRaises if save_results_file had no except clause.
SaveRaisesAlways(outcome) == TRUE

\* save_results_file's `except Exception ... return False`: an error while
\* writing the files is swallowed, not raised to generate_restoration.
SaveRaises(outcome) == FALSE

\* The files after a `with open(name, "w") ...` block that ended in outcome.
FilesAfter(fs, name, content, outcome) ==
    CASE outcome = "open_error"  -> fs
      [] outcome = "write_error" ->
            {f \in fs : f.name # name} \cup {[name |-> name, content |-> Partial]}
      [] OTHER ->
            {f \in fs : f.name # name} \cup {[name |-> name, content |-> content]}

\* result_data of save_results_file (created_at is a timestamp, left out).
ResultData(id, rtype, prompt, description) ==
    [ id |-> id,
      result |-> [ restoration_type |-> rtype,
                   prompt |-> prompt,
                   building_description |-> description ] ]

\* The dictionary generate_restoration returns at the end of the try block.
SuccessRecord(id, rtype, original, restored, prompt, description) ==
    [ id |-> id,
      restoration_type |-> rtype,
      original_image |-> original,
      restored_image |-> restored,
      prompt |-> prompt,
      building_description |-> description ]

\* OuterCatches if the clause were `except ValueError as e`.
OuterCatchesValueError(e) ==
    e \in {"Failed to get building description from the vision model",
           "GPT Image editing failed: ConnectionError",
           "GPT Image editing failed: GPT Image API error: HTTP",
           "GPT Image editing failed: 'b64_json'"}

\* `except Exception as e` catches every exception the try block raises.
OuterCatches(e) == TRUE

\* The dictionary of the outer `except Exception as e`.
ErrorRecord(e, id) == [error |-> e, id |-> id]

-----------------------------------------------------------------------------
(* Decisions of api_restore_image *)

\* NoImageData if the check were `if image_data is None`: the default of
\* form_data.get is "", never None.
NoImageDataIsNone(img) == FALSE

\* `if not image_data`
NoImageData(img) == img = <<>>

\* options = {"home_restoration": ..., "commercial_restoration": ...}
Options(rtype) ==
    [ home_restoration |-> (rtype = "home"),
      commercial_restoration |-> (rtype = "commercial") ]

ErrorFragment(text) == [cls |-> "alert alert-error", text |-> text]

\* Render without the check `if "error" in result`, reading the record with
\* result.get.
RenderNoErrorCheck(res) ==
    [ cls |-> "diff",
      original_image |-> Get(res, "original_image", <<>>),
      restored_image |-> Get(res, "restored_image", <<>>),
      restoration_type |-> Get(res, "restoration_type", ""),
      building_description |-> Get(res, "building_description", "") ]

\* The HTMLResponse built from generate_restoration's result.
Render(res) ==
    IF "error" \in DOMAIN res
    THEN ErrorFragment(res.error)
    ELSE [ cls |-> "diff",
           original_image |-> res.original_image,
           restored_image |-> res.restored_image,
           restoration_type |-> res.restoration_type,
           building_description |-> res.building_description ]

-----------------------------------------------------------------------------
(* State *)

Init ==
    /\ OPENAI_API_KEY \in ApiKeys
    /\ pc = [r \in Requests |-> "idle"]
    /\ image_data = [r \in Requests |-> <<>>]
    /\ options = [r \in Requests |-> None]
    /\ restoration_type = [r \in Requests |-> ""]
    /\ result_id = [r \in Requests |-> NoId]
    /\ building_description = [r \in Requests |-> ""]
    /\ restored_image_b64 = [r \in Requests |-> <<>>]
    /\ result = [r \in Requests |-> None]
    /\ response = [r \in Requests |-> None]
    /\ posts = [r \in Requests |-> <<>>]
    /\ inserts = [r \in Requests |-> 0]
    /\ writes = [r \in Requests |-> <<>>]
    /\ log = [r \in Requests |-> {}]
    /\ results = {}
    /\ files = {}

\* Uuid4 if the id were drawn once, at import time, and shared by all calls.
Uuid4Shared(r) == 1

\* uuid.uuid4().hex, called by request r.
Uuid4(r) == r

\* The request r ends: generate_restoration (if it ran) returned res and its
\* locals are gone, api_restore_image answered resp.
Done(r, res, resp, printed) ==
    /\ pc' = [pc EXCEPT ![r] = "done"]
    /\ result' = [result EXCEPT ![r] = res]
    /\ response' = [response EXCEPT ![r] = resp]
    /\ log' = [log EXCEPT ![r] = @ \cup printed]
    /\ image_data' = [image_data EXCEPT ![r] = <<>>]
    /\ options' = [options EXCEPT ![r] = None]
    /\ restoration_type' = [restoration_type EXCEPT ![r] = ""]
    /\ building_description' = [building_description EXCEPT ![r] = ""]
    /\ restored_image_b64' = [restored_image_b64 EXCEPT ![r] = <<>>]

\* generate_restoration returns res; api_restore_image renders it.
Return(r, res, printed) == Done(r, res, Render(res), printed)

\* An exception e raised inside the try block of generate_restoration: the
\* outer `except Exception as e` turns it into the error record; an exception
\* it did not catch would leave generate_restoration and reach the except
\* clause of api_restore_image.
Raise(r, e, printed) ==
    IF OuterCatches(e)
    THEN Return(r, ErrorRecord(e, result_id[r]),
                printed \cup {"Error generating restoration"})
    ELSE Done(r, None, ErrorFragment(e),
              printed \cup {"Error generating restoration (handler)"})

\* The record generate_restoration returns when nothing was raised.
Success(r) ==
    LET rtype == restoration_type[r]
    IN  SuccessRecord(result_id[r], rtype, image_data[r], restored_image_b64[r],
                      EnhancedPrompt(building_description[r], rtype),
                      building_description[r])

Stored(op, outcome) == [op |-> op, outcome |-> outcome]

Outbound(url, reply) ==
    [url |-> url, authorization |-> <<"Bearer", OPENAI_API_KEY>>, reply |-> reply]

-----------------------------------------------------------------------------
(* api_restore_image, up to the remote call of generate_restoration *)

Post(r) ==
    /\ pc[r] = "idle"
    /\ \/ \* request.form() raises: the handler's own except
          Done(r, None, ErrorFragment("form could not be parsed"),
               {"Error generating restoration (handler)"})
       \/ \E form_data \in Forms :
            LET data == Get(form_data, "image_data", <<>>)
                form_type == Get(form_data, "restoration_type", "home")
            IN  IF NoImageData(data)
                THEN Done(r, None, ErrorFragment("No image data provided"), {})
                ELSE /\ pc' = [pc EXCEPT ![r] = "invoked"]
                     /\ image_data' = [image_data EXCEPT ![r] = data]
                     /\ options' = [options EXCEPT ![r] = Options(form_type)]
                     /\ UNCHANGED <<restoration_type, result, response, log,
                                    building_description, restored_image_b64>>
    /\ UNCHANGED <<OPENAI_API_KEY, result_id, posts, inserts, writes, results, files>>

-----------------------------------------------------------------------------
(* generate_restoration *)

\* result_id = uuid.uuid4().hex; restoration_type is computed from options,
\* which is not read again; the data-URL prefix is cut off image_data.
Begin(r) ==
    /\ pc[r] = "invoked"
    /\ result_id' = [result_id EXCEPT ![r] = Uuid4(r)]
    /\ restoration_type' = [restoration_type EXCEPT ![r] = RestorationType(options[r])]
    /\ options' = [options EXCEPT ![r] = None]
    /\ image_data' = [image_data EXCEPT ![r] = StripDataUrl(@)]
    /\ pc' = [pc EXCEPT ![r] = "vision"]
    /\ UNCHANGED <<OPENAI_API_KEY, building_description, restored_image_b64,
                   result, response, posts, inserts, writes, log, results, files>>

\* Stage one: the POST to the chat-completions endpoint.
VisionPost(r) ==
    /\ pc[r] = "vision"
    /\ \E reply \in ProviderReplies(OPENAI_API_KEY, VisionReplies) :
         /\ posts' = [posts EXCEPT ![r] =
                         Append(@, Outbound(OPENAI_CHAT_COMPLETIONS_URL, reply))]
         /\ IF VisionRaises(reply)
            THEN Raise(r, VisionMessage(reply), {})
            ELSE /\ building_description' =
                        [building_description EXCEPT ![r] = VisionDescription(reply)]
                 /\ pc' = [pc EXCEPT ![r] = "prepare"]
                 /\ UNCHANGED <<image_data, options, restoration_type, restored_image_b64, result,
                                response, log>>
    /\ UNCHANGED <<OPENAI_API_KEY, result_id, inserts, writes, results, files>>

\* base64.b64decode, Image.open, thumbnail, save, create_mask_with_alpha.
PrepareImage(r) ==
    /\ pc[r] = "prepare"
    /\ IF ImageOpens(image_data[r])
       THEN /\ pc' = [pc EXCEPT ![r] = "edit"]
            /\ UNCHANGED <<image_data, options, restoration_type, building_description,
                           restored_image_b64, result, response, log>>
       ELSE Raise(r, "cannot identify image file", {})
    /\ UNCHANGED <<OPENAI_API_KEY, result_id, posts, inserts, writes, results, files>>

\* Stage two: the POST to the image-edits endpoint.
EditPost(r) ==
    /\ pc[r] = "edit"
    /\ \E reply \in ProviderReplies(OPENAI_API_KEY, EditReplies) :
         /\ posts' = [posts EXCEPT ![r] =
                         Append(@, Outbound(OPENAI_IMAGE_API_URL, reply))]
         /\ IF EditRaises(reply)
            THEN IF EditFallback(reply)
                 THEN UNCHANGED <<pc, image_data, options, restoration_type, building_description,
                                  restored_image_b64, result, response, log>>
                 ELSE Raise(r, EditMessage(reply), {"GPT Image editing failed"})
            ELSE /\ restored_image_b64' =
                        [restored_image_b64 EXCEPT ![r] = RestoredImage(reply)]
                 /\ pc' = [pc EXCEPT ![r] = "database"]
                 /\ UNCHANGED <<image_data, options, restoration_type, building_description, result,
                                response, log>>
    /\ UNCHANGED <<OPENAI_API_KEY, result_id, inserts, writes, results, files>>

\* setup_database, INSERT, commit, close.
DbWrite(r) ==
    /\ pc[r] = "database"
    /\ \E outcome \in DbOutcomes :
         LET rtype == restoration_type[r]
             row == ResultRow(result_id[r], rtype,
                              EnhancedPrompt(building_description[r], rtype))
         IN  /\ PrimaryKeyFree(results, result_id[r])
                    \/ outcome \in {"setup_error", "insert_error"}
             /\ inserts' = [inserts EXCEPT ![r] =
                               IF InsertExecuted(outcome) THEN @ + 1 ELSE @]
             /\ writes' = [writes EXCEPT ![r] = Append(@, Stored("database", outcome))]
             /\ results' =
                    LET table == IF outcome = "setup_error"
                                 THEN results ELSE SetupTable(results)
                    IN  IF RowCommitted(outcome) THEN table \cup {row} ELSE table
             /\ IF DbRaises(outcome)
                THEN Raise(r, DbMessage(outcome), {"Error saving to database"})
                ELSE /\ pc' = [pc EXCEPT ![r] = "save_json"]
                     /\ UNCHANGED <<image_data, options, restoration_type, building_description,
                                    restored_image_b64, result, response, log>>
    /\ UNCHANGED <<OPENAI_API_KEY, result_id, posts, files>>

-----------------------------------------------------------------------------
(* save_results_file, called inside the database try block *)

\* A `with open` block of save_results_file ended in outcome: on "ok" the
\* request goes on to `next`; otherwise the except clause of
\* save_results_file prints and returns False, the caller drops the return
\* value and generate_restoration returns its record.
AfterWrite(r, outcome, next) ==
    IF outcome = "ok" /\ next # "return"
    THEN /\ pc' = [pc EXCEPT ![r] = next]
         /\ UNCHANGED <<image_data, options, restoration_type, building_description,
                        restored_image_b64, result, response, log>>
    ELSE IF outcome = "ok"
    THEN Return(r, Success(r), {"Saved result files"})
    ELSE IF SaveRaises(outcome)
    THEN Raise(r, "OSError: write failed", {"Error saving to database"})
    ELSE Return(r, Success(r), {"Error saving result files"})

\* os.makedirs(RESULTS_FOLDER) and the block writing <id>.json.
WriteJson(r) ==
    /\ pc[r] = "save_json"
    /\ \E makedirs \in BOOLEAN, outcome \in FileOutcomes :
         LET rtype == restoration_type[r]
             data == ResultData(result_id[r], rtype,
                                EnhancedPrompt(building_description[r], rtype),
                                building_description[r])
         IN  IF ~makedirs
             THEN \* raised outside save_results_file's try
                  /\ Raise(r, "OSError: makedirs failed", {"Error saving to database"})
                  /\ writes' = [writes EXCEPT ![r] = Append(@, Stored("makedirs", "error"))]
                  /\ UNCHANGED files
             ELSE /\ writes' = [writes EXCEPT ![r] = Append(@, Stored(".json", outcome))]
                  /\ files' = FilesAfter(files, JsonPath(result_id[r]), data, outcome)
                  /\ AfterWrite(r, outcome, "save_original")
    /\ UNCHANGED <<OPENAI_API_KEY, result_id, posts, inserts, results>>

\* The block writing <id>_original.jpg.
WriteOriginal(r) ==
    /\ pc[r] = "save_original"
    /\ \E outcome \in FileOutcomes :
         /\ writes' = [writes EXCEPT ![r] = Append(@, Stored("_original.jpg", outcome))]
         /\ files' = FilesAfter(files, OriginalPath(result_id[r]),
                                B64Decode(image_data[r]), outcome)
         /\ AfterWrite(r, outcome, "save_restored")
    /\ UNCHANGED <<OPENAI_API_KEY, result_id, posts, inserts, results>>

\* The block writing <id>_restored.jpg; b64decode raises after open created
\* the file when the payload is not base64.
WriteRestored(r) ==
    /\ pc[r] = "save_restored"
    /\ \E o \in FileOutcomes :
         LET outcome == IF o = "ok" /\ ~Decodes(restored_image_b64[r])
                        THEN "write_error" ELSE o
         IN  /\ writes' = [writes EXCEPT ![r] = Append(@, Stored("_restored.jpg", outcome))]
             /\ files' = FilesAfter(files, RestoredPath(result_id[r]),
                                    B64Decode(restored_image_b64[r]), outcome)
             /\ AfterWrite(r, outcome, "return")
    /\ UNCHANGED <<OPENAI_API_KEY, result_id, posts, inserts, results>>

-----------------------------------------------------------------------------

Next ==
    \E r \in Requests :
        \/ Post(r)
        \/ Begin(r)
        \/ VisionPost(r)
        \/ PrepareImage(r)
        \/ EditPost(r)
        \/ DbWrite(r)
        \/ WriteJson(r)
        \/ WriteOriginal(r)
        \/ WriteRestored(r)

Spec == Init /\ [][Next]_vars

\* The next step of a request that api_restore_image has handed to
\* generate_restoration: each step is straight-line code around one blocking
\* call, so it is taken once that call has returned.
Run(r) ==
    \/ Begin(r)
    \/ VisionPost(r)
    \/ PrepareImage(r)
    \/ EditPost(r)
    \/ DbWrite(r)
    \/ WriteJson(r)
    \/ WriteOriginal(r)
    \/ WriteRestored(r)

\* Spec, with every outbound call and every storage operation of every
\* request eventually returning.  Nothing makes a client send a request, so
\* Post is not fair.
FairSpec == Spec /\ \A r \in Requests : WF_vars(Run(r))

-----------------------------------------------------------------------------
(* generate_restoration called directly, on any options map *)

\* The keys an options map may hold: the two api_restore_image sets and one
\* that generate_restoration does not know.
OptionKeys == {"home_restoration", "commercial_restoration", "detailed_view"}

\* Dict[str, bool] over those keys, any of them missing.
OptionMaps == UNION {[K -> BOOLEAN] : K \in SUBSET OptionKeys}

InitOptions ==
    /\ OPENAI_API_KEY = "sk-key"
    /\ pc = [r \in Requests |-> "invoked"]
    /\ image_data = [r \in Requests |-> <<"/9j/IMG">>]
    /\ options \in [Requests -> OptionMaps]
    /\ restoration_type = [r \in Requests |-> ""]
    /\ result_id = [r \in Requests |-> NoId]
    /\ building_description = [r \in Requests |-> ""]
    /\ restored_image_b64 = [r \in Requests |-> <<>>]
    /\ result = [r \in Requests |-> None]
    /\ response = [r \in Requests |-> None]
    /\ posts = [r \in Requests |-> <<>>]
    /\ inserts = [r \in Requests |-> 0]
    /\ writes = [r \in Requests |-> <<>>]
    /\ log = [r \in Requests |-> {}]
    /\ results = {}
    /\ files = {}

NextOptions == \E r \in Requests : Begin(r)

SpecOptions == InitOptions /\ [][NextOptions]_vars

-----------------------------------------------------------------------------
(* Vocabulary of the properties.  Replies and outcomes are named here by   *)
(* what the provider or the storage did, not by how the code reacts.       *)

RowsOf(id) == {row \in results : row.id = id}
FilesOf(id) == {f \in files : f.name[1] = id}
FileNames(id) == {f.name : f \in FilesOf(id)}
CompanionNames(id) == {JsonPath(id), OriginalPath(id), RestoredPath(id)}

ChatPosts(r) == {i \in DOMAIN posts[r] : posts[r][i].url = OPENAI_CHAT_COMPLETIONS_URL}
EditPosts(r) == {i \in DOMAIN posts[r] : posts[r][i].url = OPENAI_IMAGE_API_URL}

\* Stage one failed: transport exception, error status, unusable body or
\* empty description.
StageOneFailed(r) == \E i \in ChatPosts(r) : posts[r][i].reply # "ok"
StageOneSucceeded(r) == \E i \in ChatPosts(r) : posts[r][i].reply = "ok"

\* Stage two failed: transport exception, error status, or a body without
\* data[0].b64_json.
StageTwoFailed(r) ==
    \E i \in EditPosts(r) :
        posts[r][i].reply \in {"transport_error", "http_error", "no_b64_json"}
StageTwoSucceeded(r) ==
    \E i \in EditPosts(r) : posts[r][i].reply \in {"ok", "undecodable_b64"}

IsErrorRecord(res) == DOMAIN res = {"error", "id"}
IsSuccessRecord(res) ==
    DOMAIN res = {"id", "restoration_type", "original_image", "restored_image",
                  "prompt", "building_description"}
IsErrorFragment(resp) == DOMAIN resp = {"cls", "text"} /\ resp.cls = "alert alert-error"

LastWrite(r) == writes[r][Len(writes[r])]

\* The request stored a row and went through all three file blocks.
StoredEverything(r) ==
    /\ pc[r] = "done"
    /\ RowsOf(result_id[r]) # {}
    /\ FileNames(result_id[r]) = CompanionNames(result_id[r])
    /\ \A f \in FilesOf(result_id[r]) : f.content # Partial

-----------------------------------------------------------------------------
\* C1: if the stage-one or the stage-two call of a request fails, no row with
\* the request's id is ever inserted, no companion file for the id is
\* written, and the request ends with the error record only.
C1_FailedCallStoresNothing ==
    \A r \in Requests :
        (StageOneFailed(r) \/ StageTwoFailed(r)) =>
            /\ inserts[r] = 0
            /\ writes[r] = <<>>
            /\ RowsOf(result_id[r]) = {}
            /\ FilesOf(result_id[r]) = {}
            /\ pc[r] = "done"
            /\ IsErrorRecord(result[r])
            /\ IsErrorFragment(response[r])

\* One request failed in stage two with an error status and ended, another
\* failed in stage one, while the run is free to store rows for neither.
C1_Witness ==
    \E r, q \in Requests :
        /\ r # q
        /\ pc[r] = "done" /\ StageTwoFailed(r)
        /\ posts[r][2].reply = "http_error"
        /\ pc[q] = "done" /\ StageOneFailed(q)
        /\ posts[q][1].reply = "bad_body"

\* C2: the INSERT of a request is executed at most once, and only after both
\* the stage-one and the stage-two call of the same request succeeded; no
\* row exists before or without both successes.
C2_InsertOnceAfterBothStages ==
    \A r \in Requests :
        /\ inserts[r] <= 1
        /\ Cardinality(RowsOf(result_id[r])) <= 1
        /\ (inserts[r] > 0 \/ RowsOf(result_id[r]) # {} \/ writes[r] # <<>>) =>
              /\ StageOneSucceeded(r)
              /\ StageTwoSucceeded(r)
              /\ ~StageOneFailed(r)
              /\ ~StageTwoFailed(r)

\* A request whose INSERT ran and whose row is in the table.
C2_Witness ==
    \E r \in Requests :
        /\ inserts[r] = 1
        /\ RowsOf(result_id[r]) # {}
        /\ StageOneSucceeded(r) /\ StageTwoSucceeded(r)

\* C3 (as claimed): no request ends reported as a success while its row is
\* stored and one of <id>.json, <id>_original.jpg, <id>_restored.jpg is
\* missing.
C3_AllOrNothing ==
    \A r \in Requests :
        (pc[r] = "done" /\ IsSuccessRecord(result[r]) /\ RowsOf(result_id[r]) # {}) =>
            CompanionNames(result_id[r]) \subseteq FileNames(result_id[r])

\* C4 (as claimed): when both calls succeeded and the persistence write then
\* failed - the INSERT, the commit or a file block - the failure is logged
\* and the computed record, with restored_image, is returned, not an error
\* record.
C4_PersistenceFailureStillReturnsResult ==
    \A r \in Requests :
        (/\ pc[r] = "done" /\ writes[r] # <<>>
         /\ \/ LastWrite(r) \in {Stored("database", "insert_error"),
                                 Stored("database", "commit_error")}
            \/ /\ LastWrite(r).op \in {".json", "_original.jpg", "_restored.jpg"}
               /\ LastWrite(r).outcome # "ok") =>
            /\ log[r] \cap {"Error saving to database", "Error saving result files"} # {}
            /\ IsSuccessRecord(result[r])

\* C4 (amended): when both calls succeeded and a file block of
\* save_results_file failed, the failure is logged and the computed record,
\* with restored_image, is returned; when the database block (setup, INSERT,
\* commit, close) or the creation of the results folder failed, the failure
\* is logged and the error record with the request's id is returned.
C4_FileFailureReturnsResult_DbFailureReturnsError ==
    \A r \in Requests :
        (pc[r] = "done" /\ writes[r] # <<>> /\ LastWrite(r).outcome # "ok") =>
            /\ StageOneSucceeded(r) /\ StageTwoSucceeded(r)
            /\ IF LastWrite(r).op \in {"database", "makedirs"}
               THEN /\ "Error saving to database" \in log[r]
                    /\ IsErrorRecord(result[r])
                    /\ result[r].id = result_id[r]
               ELSE /\ "Error saving result files" \in log[r]
                    /\ IsSuccessRecord(result[r])
                    /\ result[r].id = result_id[r]
                    /\ result[r].restored_image \in {<<"RESTORED">>, <<"%%%">>}
                    /\ response[r] = Render(result[r])
                    /\ ~IsErrorFragment(response[r])

\* One request lost its <id>_original.jpg and still got its record; another
\* lost its commit and got the error record.
C4_Witness ==
    \E r, q \in Requests :
        /\ pc[r] = "done" /\ writes[r] # <<>>
        /\ LastWrite(r) = Stored("_original.jpg", "write_error")
        /\ IsSuccessRecord(result[r])
        /\ pc[q] = "done" /\ writes[q] # <<>>
        /\ LastWrite(q) = Stored("database", "commit_error")
        /\ IsErrorRecord(result[q])

\* The image could not be decoded or opened: stage one succeeded and the
\* request ended without a stage-two call.
ImageFailed(r) == pc[r] = "done" /\ StageOneSucceeded(r) /\ EditPosts(r) = {}

\* The database block raised: setup_database, INSERT, commit, close, or the
\* os.makedirs at the start of save_results_file.
DatabaseBlockFailed(r) ==
    /\ writes[r] # <<>>
    /\ LastWrite(r).op \in {"database", "makedirs"}
    /\ LastWrite(r).outcome # "ok"

\* C5: every failure inside generate_restoration (stage-one call, empty
\* description, image decoding, stage-two call, response parsing, database
\* block) ends the request with a record of exactly the keys error and id,
\* id being the id generated at the start of the request; once
\* generate_restoration ran, api_restore_image gets a record from it, never
\* an exception.
C5_FailuresBecomeErrorRecords ==
    \A r \in Requests :
        /\ (pc[r] = "done" /\ result_id[r] # NoId) => result[r] # None
        /\ (StageOneFailed(r) \/ ImageFailed(r) \/ StageTwoFailed(r)
                \/ DatabaseBlockFailed(r)) =>
              /\ pc[r] = "done"
              /\ result_id[r] # NoId
              /\ IsErrorRecord(result[r])
              /\ result[r].id = result_id[r]
              /\ response[r] = ErrorFragment(result[r].error)

\* One request failed in the INSERT, another on an image that does not open.
C5_Witness ==
    \E r, q \in Requests :
        /\ pc[r] = "done" /\ writes[r] # <<>>
        /\ LastWrite(r) = Stored("database", "insert_error")
        /\ result[r] = ErrorRecord(DbMessage("insert_error"), result_id[r])
        /\ ImageFailed(q)
        /\ IsErrorRecord(result[q])

\* C6: a request issues the stage-two POST only after its stage-one POST came
\* back with a description; after a failed stage one or an empty description
\* it issues no stage-two POST.
C6_StageTwoOnlyAfterStageOne ==
    \A r \in Requests :
        /\ \A i \in EditPosts(r) :
              \E j \in ChatPosts(r) : j < i /\ posts[r][j].reply = "ok"
        /\ StageOneFailed(r) => EditPosts(r) = {}
        /\ pc[r] = "edit" => StageOneSucceeded(r) /\ building_description[r] # ""

\* One request issued its stage-two POST; another got an empty description
\* and ended.
C6_Witness ==
    \E r, q \in Requests :
        /\ EditPosts(r) # {}
        /\ pc[q] = "done"
        /\ posts[q] = <<Outbound(OPENAI_CHAT_COMPLETIONS_URL, "empty_description")>>

\* C7: a request issues at most one POST to the chat-completions endpoint
\* and at most one to the image-edits endpoint, and a failed stage-two POST
\* is the request's last outbound call.
C7_NoRetry ==
    \A r \in Requests :
        /\ Cardinality(ChatPosts(r)) <= 1
        /\ Cardinality(EditPosts(r)) <= 1
        /\ \A i \in EditPosts(r) :
              posts[r][i].reply \in {"transport_error", "http_error", "no_b64_json"}
                  => i = Len(posts[r]) /\ pc[r] = "done"

\* A request whose stage-two POST failed in the transport and which ended
\* after its two POSTs.
C7_Witness ==
    \E r \in Requests :
        /\ pc[r] = "done"
        /\ Len(posts[r]) = 2
        /\ posts[r][2] = Outbound(OPENAI_IMAGE_API_URL, "transport_error")

NoImageFragment == ErrorFragment("No image data provided")

\* C8: generate_restoration is never invoked with an empty image_data, and a
\* request answered "No image data provided" made no outbound call,
\* generated no id, got no record and did nothing to the table or the folder.
C8_EmptyImageRejectedUpFront ==
    \A r \in Requests :
        /\ pc[r] = "invoked" => image_data[r] # <<>>
        /\ response[r] = NoImageFragment =>
              /\ pc[r] = "done"
              /\ posts[r] = <<>>
              /\ result_id[r] = NoId
              /\ result[r] = None
              /\ inserts[r] = 0
              /\ writes[r] = <<>>
              /\ RowsOf(result_id[r]) = {}
              /\ FilesOf(result_id[r]) = {}

\* A request was rejected for its empty image while another one stored its
\* row and files.
C8_Witness ==
    \E r, q \in Requests :
        /\ response[r] = NoImageFragment
        /\ StoredEverything(q)

\* C9 (as claimed): with a missing credential no request makes an outbound
\* call, and a request that reached generate_restoration is answered with a
\* hint to configure the credential.
C9_MissingCredentialRejected ==
    OPENAI_API_KEY = "" =>
        \A r \in Requests :
            /\ posts[r] = <<>>
            /\ (pc[r] = "done" /\ result_id[r] # NoId) =>
                  /\ IsErrorFragment(response[r])
                  /\ response[r].text = "Configure OPENAI_API_KEY"

\* C10: when the stage-two reply has status 200 but no data[0].b64_json, the
\* request ends with the error record (keys error and id only, so neither
\* the description nor the original image), the error fragment is rendered,
\* and nothing is stored.
C10_MalformedReplyIsNotSalvaged ==
    \A r \in Requests :
        (\E i \in EditPosts(r) : posts[r][i].reply = "no_b64_json") =>
            /\ pc[r] = "done"
            /\ IsErrorRecord(result[r])
            /\ result[r].error = "GPT Image editing failed: 'b64_json'"
            /\ IsErrorFragment(response[r])
            /\ inserts[r] = 0
            /\ writes[r] = <<>>
            /\ RowsOf(result_id[r]) = {}
            /\ FilesOf(result_id[r]) = {}

\* A request that got a description and then a 200 reply without the image.
C10_Witness ==
    \E r \in Requests :
        /\ pc[r] = "done"
        /\ posts[r] = <<Outbound(OPENAI_CHAT_COMPLETIONS_URL, "ok"),
                        Outbound(OPENAI_IMAGE_API_URL, "no_b64_json")>>
        /\ IsErrorRecord(result[r])

-----------------------------------------------------------------------------
\* C11: the results table is append-only: a row that is in the table stays in
\* it, with the same id, restoration_type, prompt and image paths, in every
\* later state; no step updates or deletes a row.
C11_AppendOnly ==
    [][\A row \in results : row \in results']_vars

\* Two rows are in the table: the first one was committed and was still
\* there, unchanged, when the second request committed its own.
C11_Witness ==
    /\ Cardinality(results) = 2
    /\ \A r \in {1, 2} : pc[r] = "done" /\ RowsOf(result_id[r]) # {}

\* The database block of the request got past commit.
Committed(r) ==
    /\ writes[r] # <<>>
    /\ writes[r][1].op = "database"
    /\ writes[r][1].outcome \in {"close_error", "ok"}

\* The file blocks of the request that created their file.
FilesWritten(r) ==
    { <<result_id[r], writes[r][i].op>> :
        i \in {j \in DOMAIN writes[r] :
                 /\ writes[r][j].op \in {".json", "_original.jpg", "_restored.jpg"}
                 /\ writes[r][j].outcome # "open_error"} }

\* C12: no two rows of the table share an id, no two requests generate the
\* same id, and within a request the id of the returned record, the id of
\* the inserted row (and of the paths it holds) and the id in the names of
\* the companion files are the value generated at the start of the request.
C12_IdsUniqueAndFixed ==
    /\ \A row1, row2 \in results : row1.id = row2.id => row1 = row2
    /\ \A r, q \in Requests :
          (r # q /\ result_id[r] # NoId) => result_id[r] # result_id[q]
    /\ \A row \in results :
          /\ \E r \in Requests : Committed(r) /\ result_id[r] = row.id
          /\ row.original_image_path = OriginalPath(row.id)
          /\ row.restored_image_path = RestoredPath(row.id)
    /\ \A f \in files :
          /\ \E r \in Requests : f.name \in FilesWritten(r)
          /\ "id" \in DOMAIN f.content => f.content.id = f.name[1]
    /\ \A r \in Requests :
          /\ "id" \in DOMAIN result[r] =>
                result[r].id = result_id[r] /\ result_id[r] # NoId
          /\ Committed(r) => Cardinality(RowsOf(result_id[r])) = 1
          /\ FilesWritten(r) = FileNames(result_id[r])

\* Both requests ended with their record, row and three files.
C12_Witness ==
    /\ StoredEverything(1) /\ StoredEverything(2)
    /\ IsSuccessRecord(result[1]) /\ IsSuccessRecord(result[2])
    /\ result[1].id # result[2].id

\* The state that belongs to request q: its position, the arguments and
\* locals of its call, what it returned and answered, and what it did.
\* The step changes some part of request q's own state.
OwnChanged(q) ==
    \/ pc'[q] # pc[q]
    \/ result'[q] # result[q]
    \/ response'[q] # response[q]
    \/ result_id'[q] # result_id[q]
    \/ image_data'[q] # image_data[q]
    \/ options'[q] # options[q]
    \/ restoration_type'[q] # restoration_type[q]
    \/ building_description'[q] # building_description[q]
    \/ restored_image_b64'[q] # restored_image_b64[q]
    \/ posts'[q] # posts[q]
    \/ inserts'[q] # inserts[q]
    \/ writes'[q] # writes[q]
    \/ log'[q] # log[q]

\* C13: concurrent requests share nothing but the store.  A step of one
\* request changes neither the state of another request nor the rows and
\* files of another request's id; what a request can do never depends on
\* another request (its INSERT never finds its id taken); and when all
\* requests have ended, the table holds one row for each request that got a
\* success record and none for a request that failed before persistence.
C13_RequestsAreIndependent ==
    [][ /\ \A r, q \in Requests :
              (r # q /\ OwnChanged(r)) =>
                  /\ ~OwnChanged(q)
                  /\ RowsOf(result_id[q])' = RowsOf(result_id[q])
                  /\ FilesOf(result_id[q])' = FilesOf(result_id[q])
        /\ \A r \in Requests :
              pc[r] = "database" => PrimaryKeyFree(results, result_id[r])
        /\ (\A r \in Requests : pc'[r] = "done") =>
              \A r \in Requests :
                  /\ IsSuccessRecord(result'[r]) =>
                        Cardinality(RowsOf(result_id[r])') = 1
                  /\ writes'[r] = <<>> => RowsOf(result_id[r])' = {}
      ]_vars

\* Two requests are inside the persistence step at the same time, one past
\* its commit and writing files, the other about to run its INSERT.
C13_Witness ==
    \E r, q \in Requests :
        /\ r # q
        /\ pc[r] = "save_original" /\ RowsOf(result_id[r]) # {}
        /\ pc[q] = "database"

\* The value of home_restoration in an options map, TRUE when the key is
\* missing.
HomeFlag(o) == IF "home_restoration" \in DOMAIN o THEN o["home_restoration"] ELSE TRUE

\* C14: for every options map the restoration type and the prompts are
\* decided by the value of home_restoration alone (TRUE when missing): every
\* map with the same value of that key, whatever other keys it holds, gives
\* the same type and the same prompts, and a type is always produced.  (A
\* map has no key order.)
C14_OnlyHomeRestorationMatters ==
    [][\A r \in Requests :
          (pc[r] = "invoked" /\ pc'[r] # "invoked") =>
              /\ pc'[r] = "vision"
              /\ restoration_type'[r] =
                    IF HomeFlag(options[r])
                    THEN "Home Restoration" ELSE "Commercial Restoration"
              /\ \A o \in OptionMaps :
                    HomeFlag(o) = HomeFlag(options[r]) =>
                        /\ RestorationType(o) = restoration_type'[r]
                        /\ Prompt(RestorationType(o)) = Prompt(restoration_type'[r])
                        /\ \A d \in {"", "A derelict two-storey house"} :
                              EnhancedPrompt(d, RestorationType(o))
                                  = EnhancedPrompt(d, restoration_type'[r])
      ]_vars

\* One call came out as a commercial restoration while another call, whose
\* map holds commercial_restoration and an unknown key but not
\* home_restoration, is about to be served.
C14_Witness ==
    /\ pc[1] = "vision" /\ restoration_type[1] = "Commercial Restoration"
    /\ pc[2] = "invoked"
    /\ options[2] = [commercial_restoration |-> TRUE, detailed_view |-> FALSE]

\* C15 (as claimed): for every request that got a success record, storage
\* gives back the same id, restoration_type and description: the row holds
\* the id and the restoration_type, and <id>.json holds the id, the
\* restoration_type and the building_description.
C15_StorageRoundTrip ==
    \A r \in Requests :
        (pc[r] = "done" /\ IsSuccessRecord(result[r])) =>
            /\ \E row \in results :
                  /\ row.id = result[r].id
                  /\ row.restoration_type = result[r].restoration_type
            /\ \E f \in files :
                  /\ f.name = JsonPath(result[r].id)
                  /\ f.content # Partial
                  /\ f.content.id = result[r].id
                  /\ f.content.result.restoration_type = result[r].restoration_type
                  /\ f.content.result.building_description
                        = result[r].building_description

\* C16: every row of the table has status "generated" and feedback NULL.
C16_StatusGeneratedFeedbackNull ==
    \A row \in results : row.status = "generated" /\ row.feedback = None

\* A row is in the table and the request that stored it has ended.
C16_Witness ==
    \E r \in Requests : pc[r] = "done" /\ RowsOf(result_id[r]) # {}

IsDiffFragment(resp) ==
    DOMAIN resp = {"cls", "original_image", "restored_image", "restoration_type",
                   "building_description"}
    /\ resp.cls = "diff"

\* C17: a request that ended was answered with an HTML fragment: the error
\* fragment when generate_restoration's result holds the key error (with the
\* text of that error) or when the handler returned without a result (no
\* image, or an exception in the handler); the fragment with the restored
\* image only when the result holds no error key.
C17_HandlerAlwaysAnswers ==
    \A r \in Requests :
        pc[r] = "done" =>
            /\ IsErrorFragment(response[r]) \/ IsDiffFragment(response[r])
            /\ "error" \in DOMAIN result[r] =>
                  response[r] = ErrorFragment(result[r].error)
            /\ result[r] = None => IsErrorFragment(response[r])
            /\ IsDiffFragment(response[r]) =>
                  /\ IsSuccessRecord(result[r])
                  /\ response[r].restored_image = result[r].restored_image
                  /\ response[r].original_image = result[r].original_image

\* One request was answered with the restored image, the other with the
\* error of a failed stage-two call.
C17_Witness ==
    \E r, q \in Requests :
        /\ pc[r] = "done" /\ IsDiffFragment(response[r])
        /\ pc[q] = "done" /\ StageTwoFailed(q) /\ IsErrorFragment(response[q])

\* C18 (as claimed): whenever generate_restoration returned an error record
\* for an id, the table holds no row with that id.
C18_ErrorRecordMeansNoRow ==
    \A r \in Requests :
        (pc[r] = "done" /\ IsErrorRecord(result[r])) => RowsOf(result[r].id) = {}

\* C19: whenever generate_restoration returned a success record, a row with
\* the record's id is in the table, with the record's restoration_type and
\* prompt.
C19_SuccessRecordHasRow ==
    \A r \in Requests :
        IsSuccessRecord(result[r]) =>
            \E row \in results :
                /\ row.id = result[r].id
                /\ row.restoration_type = result[r].restoration_type
                /\ row.prompt = result[r].prompt

\* A request got its success record although its <id>.json could not be
\* opened; its row is in the table.
C19_Witness ==
    \E r \in Requests :
        /\ IsSuccessRecord(result[r])
        /\ LastWrite(r) = Stored(".json", "open_error")
        /\ RowsOf(result[r].id) # {}

\* C20: the row of a request is committed before any of its companion files
\* is written: whenever a file <id>.json, <id>_original.jpg or
\* <id>_restored.jpg exists, a row with that id is in the table, and a
\* request runs a file block only after its database block ended well.
C20_RowBeforeFiles ==
    /\ \A f \in files : RowsOf(f.name[1]) # {}
    /\ \A r \in Requests :
          \A i \in DOMAIN writes[r] :
              writes[r][i].op \in {"makedirs", ".json", "_original.jpg", "_restored.jpg"} =>
                  /\ i > 1
                  /\ writes[r][1] = Stored("database", "ok")
                  /\ RowsOf(result_id[r]) # {}

\* A request has written <id>.json and is about to write <id>_original.jpg.
C20_Witness ==
    \E r \in Requests :
        /\ pc[r] = "save_original"
        /\ JsonPath(result_id[r]) \in FileNames(result_id[r])
        /\ RowsOf(result_id[r]) # {}

\* generate_restoration ran for request r (it drew the id).
Generated(r) == result_id[r] # NoId

\* Request r has ended with one outcome: the handler answered, and if
\* generate_restoration ran it returned a success record or an error record.
OneOutcome(r) ==
    /\ pc[r] = "done"
    /\ IsErrorFragment(response[r]) \/ IsDiffFragment(response[r])
    /\ Generated(r) =>
          /\ IsSuccessRecord(result[r]) \/ IsErrorRecord(result[r])
          /\ ~(IsSuccessRecord(result[r]) /\ IsErrorRecord(result[r]))
          /\ result[r].id = result_id[r]

\* C21: every request eventually completes with exactly one outcome.  With
\* every provider call and storage operation returning, a request that
\* reached the handler ends; when it has ended, the handler has returned one
\* response and generate_restoration, if it ran, has returned either a success
\* record or an error record, never both and never neither; and a request
\* that has ended takes no further step, so its outcome is never replaced.
C21_EveryRequestCompletesOnce ==
    /\ \A r \in Requests : (pc[r] = "invoked") ~> OneOutcome(r)
    /\ [](\A r \in Requests : pc[r] = "done" => OneOutcome(r))
    /\ [][\A r \in Requests :
              pc[r] = "done" =>
                  /\ pc'[r] = "done"
                  /\ result'[r] = result[r]
                  /\ response'[r] = response[r]
                  /\ posts'[r] = posts[r]
                  /\ writes'[r] = writes[r]]_vars

\* Every request has ended: one with a success record and everything
\* stored, one with the error record of a failed stage-one call.
C21_Witness ==
    /\ \A r \in Requests : OneOutcome(r) /\ Generated(r)
    /\ \E r, q \in Requests :
          /\ IsSuccessRecord(result[r]) /\ StoredEverything(r)
          /\ IsErrorRecord(result[q]) /\ StageOneFailed(q)

====
